---- MODULE Spec2Model ----
(***************************************************************************)
(* Model of jarvis.py: the command dispatcher handle_command, the          *)
(* asynchronous speech output speak/_s guarded by engine_lock, and the     *)
(* session loop main_loop.  Texts are TLA+ strings; the Python string      *)
(* methods the program uses (lower, strip, replace, startswith, in) are    *)
(* operators computed the way CPython computes them.                       *)
(***************************************************************************)
EXTENDS Integers, Sequences, FiniteSets, TLC

VARIABLES
    pc,           \* position of the foreground thread in main_loop
    text,         \* main_loop's local `text` once it is handed to handle_command
    result,       \* main_loop's local `result`, the value handle_command returned
    rule,         \* which branch of handle_command produced the last outcome
    tasks,        \* the threads started by speak(), in the order of the speak() calls
    engine_lock,  \* 0 when free, otherwise the index in tasks of the holder
    notes,        \* the lines of jarvis_notes.txt
    opened,       \* the URLs passed to webbrowser.open
    procs,        \* the commands passed to subprocess / os.startfile
    lookups,      \* the queries passed to wikipedia.summary
    prompts,      \* the prompts passed to model.generate_content
    mic,          \* TRUE when the global `mic` is not None
    USE_GEMINI,   \* the module-level flag
    platform,     \* sys.platform
    cycles,       \* how many utterances were handed to handle_command
    alive         \* FALSE once the interpreter has exited

vars == <<pc, text, result, rule, tasks, engine_lock, notes, opened, procs,
          lookups, prompts, mic, USE_GEMINI, platform, cycles, alive>>

-----------------------------------------------------------------------------
(* Bounds *)

\* utterances handed to the dispatcher in a session of Spec, which draws them
\* from SessionInputs and SessionHeard
MaxCycles == 2

\* utterances handed to the dispatcher in a session of SpecDispatch, which
\* draws them from TypedInputs and HeardTexts
MaxDispatch == 1

\* utterances handed to the dispatcher in a session of SpecLive, which draws
\* them from LiveInputs
MaxLive == 1

-----------------------------------------------------------------------------
(* Python str operations *)

Upper == "ABCDEFGHIJKLMNOPQRSTUVWXYZ"
LowerAlpha == "abcdefghijklmnopqrstuvwxyz"

CharAt(s, i) == SubSeq(s, i, i)

Tail_(s, n) == SubSeq(s, n + 1, Len(s))

\* str.lower() of one character
LowerChar(c) ==
    IF \E i \in 1..26 : CharAt(Upper, i) = c
    THEN CharAt(LowerAlpha, CHOOSE i \in 1..26 : CharAt(Upper, i) = c)
    ELSE c

RECURSIVE lower(_)
lower(s) == IF s = "" THEN "" ELSE LowerChar(CharAt(s, 1)) \o lower(Tail_(s, 1))

isspace(c) == c = " " \/ c = "\t"

RECURSIVE lstrip(_)
lstrip(s) == IF s # "" /\ isspace(CharAt(s, 1)) THEN lstrip(Tail_(s, 1)) ELSE s

RECURSIVE rstrip(_)
rstrip(s) ==
    IF s # "" /\ isspace(CharAt(s, Len(s))) THEN rstrip(SubSeq(s, 1, Len(s) - 1)) ELSE s

strip(s) == rstrip(lstrip(s))

startswith(s, p) == Len(s) >= Len(p) /\ SubSeq(s, 1, Len(p)) = p

\* `sub in s`
contains(s, sub) ==
    \E i \in 1..(Len(s) - Len(sub) + 1) : SubSeq(s, i, i + Len(sub) - 1) = sub

\* s.replace(old, new) for a non-empty old: one left-to-right scan that
\* replaces non-overlapping occurrences and never rescans what it produced
RECURSIVE replace(_, _, _)
replace(s, old, new) ==
    IF Len(s) < Len(old) THEN s
    ELSE IF startswith(s, old)
         THEN new \o replace(Tail_(s, Len(old)), old, new)
         ELSE CharAt(s, 1) \o replace(Tail_(s, 1), old, new)

-----------------------------------------------------------------------------
(* External collaborators, as seen from handle_command *)

Digit(n) == CharAt("0123456789", (n % 10) + 1)

\* datetime.now().strftime('%I:%M %p') at the n-th reading of the clock
strftime_time(n) == "10:0" \o Digit(n) \o " AM"

\* datetime.now().strftime('%A, %B %d, %Y')
strftime_date(n) == "Friday, November 06, 2026"

\* datetime.now().isoformat()
isoformat(n) == "2026-11-06T10:00:0" \o Digit(n)

\* wikipedia.summary(query, sentences=2) when it returns
summary(q) == "Summary of " \o q

\* search_wikipedia with the exception swallowed into an empty text
search_wikipedia_silent(q, outcome) == IF outcome = "ok" THEN summary(q) ELSE ""

\* search_wikipedia: the provider's exception becomes the returned text
search_wikipedia(q, outcome) ==
    IF outcome = "ok" THEN summary(q) ELSE "Wikipedia search failed: " \o outcome

\* ask_gemini: None is modelled as ""; both are falsy for `if response:`
ask_gemini(prompt, use_gemini, outcome) ==
    IF ~use_gemini THEN ""
    ELSE IF outcome = "reply" THEN strip(" Reply to " \o prompt \o " ")
    ELSE IF outcome = "blank" THEN strip("  ")
    ELSE ""

\* the outcomes of one call of the lookup provider and of the model client
WikiOutcomes == {"ok", "PageError"}
GeminiOutcomes == {"reply", "blank", "raise"}

-----------------------------------------------------------------------------
(* handle_command: what one call does, as a record of its effects *)

FAREWELL == "Shutting down. Have a good day, sir."
HELP == "I can help with web search, Wikipedia, opening apps, playing music, and system info. Try: 'search', 'open youtube', 'time', or 'wikipedia <topic>'"
NOT_UNDERSTOOD == "I didn't understand that. Try asking something else."
DIDNT_CATCH == "I didn't catch that."
ASK_WIKI == "Ask me who or what to search on Wikipedia."
ASK_NOTE == "What should I note?"

\* rule: the branch taken; result: the returned text; exit: sys.exit(0) was
\* called instead of returning; the sequences are the calls made, in order
NoEffect ==
    [rule    |-> "None",
     result  |-> "",
     exit    |-> FALSE,
     speaks  |-> <<>>,
     opens   |-> <<>>,
     procs   |-> <<>>,
     notes   |-> <<>>,
     lookups |-> <<>>,
     prompts |-> <<>>]

ExitKeywords == {"exit", "quit", "goodbye", "shutdown assistant"}

mapping ==
    [youtube |-> "https://youtube.com",
     google  |-> "https://google.com",
     github  |-> "https://github.com",
     gmail   |-> "https://mail.google.com"]

IsExit(cmd) == \E kw \in ExitKeywords : contains(cmd, kw)
IsTime(cmd) == contains(cmd, "time")
IsDate(cmd) == contains(cmd, "date")
IsWikipedia(cmd) ==
    startswith(cmd, "wikipedia") \/ contains(cmd, "who is") \/ contains(cmd, "what is")
IsOpen(cmd) == startswith(cmd, "open ")
IsSearch(cmd) == startswith(cmd, "search ") \/ startswith(cmd, "google ")
IsPlay(cmd) == contains(cmd, "play music") \/ startswith(cmd, "play ")
\* `or` in place of the `and` of line 254
IsShutdownEither(cmd) == contains(cmd, "shutdown") \/ contains(cmd, "computer")

IsShutdown(cmd) == contains(cmd, "shutdown") /\ contains(cmd, "computer")
IsNote(cmd) == contains(cmd, "note") \/ contains(cmd, "remember")

\* the fallback returning without speaking the help text
SilentFallback(cmd, env, before) ==
    [before EXCEPT !.rule = "Fallback", !.result = NOT_UNDERSTOOD]

\* lines 280-282
DefaultFallback(cmd, env, before) ==
    [before EXCEPT !.rule = "Fallback",
                   !.result = NOT_UNDERSTOOD,
                   !.speaks = before.speaks \o <<HELP>>]

\* lines 272-278
GeminiRule(cmd, env) ==
    IF env.use_gemini
    THEN LET response == ask_gemini(cmd, env.use_gemini, env.gemini)
             called == [NoEffect EXCEPT !.speaks = <<"Thinking...">>,
                                        !.prompts = <<cmd>>]
         IN  IF response # ""
             THEN [called EXCEPT !.rule = "Gemini",
                                 !.result = response,
                                 !.speaks = called.speaks \o <<response>>]
             ELSE DefaultFallback(cmd, env, called)
    ELSE DefaultFallback(cmd, env, NoEffect)

\* the Note branch without the `if not note_text` of line 265
NoteRuleUnchecked(cmd, env) ==
    IF IsNote(cmd)
    THEN LET note_text == strip(replace(replace(cmd, "note", ""), "remember", ""))
         IN  [NoEffect EXCEPT
                 !.rule = "Note",
                 !.result = "Noted: " \o note_text,
                 !.notes = <<"[" \o isoformat(env.now) \o "] " \o note_text>>,
                 !.speaks = <<"Noted.">>]
    ELSE GeminiRule(cmd, env)

\* lines 262-270
NoteRule(cmd, env) ==
    IF IsNote(cmd)
    THEN LET note_text == strip(replace(replace(cmd, "note", ""), "remember", ""))
         IN  IF note_text = ""
             THEN [NoEffect EXCEPT !.rule = "Note", !.result = ASK_NOTE]
             ELSE [NoEffect EXCEPT
                      !.rule = "Note",
                      !.result = "Noted: " \o note_text,
                      !.notes = <<"[" \o isoformat(env.now) \o "] " \o note_text>>,
                      !.speaks = <<"Noted.">>]
    ELSE GeminiRule(cmd, env)

\* lines 253-260
ShutdownRule(cmd, env) ==
    IF IsShutdown(cmd)
    THEN [NoEffect EXCEPT
             !.rule = "Shutdown",
             !.result = "Shutdown initiated.",
             !.speaks = <<"Shutting down the computer now. Goodbye.">>,
             !.procs = IF startswith(env.platform, "win")
                       THEN << <<"shutdown", "/s", "/t", "5">> >>
                       ELSE IF startswith(env.platform, "linux")
                               \/ startswith(env.platform, "darwin")
                       THEN << <<"sudo", "shutdown", "-h", "now">> >>
                       ELSE <<>>]
    ELSE NoteRule(cmd, env)

\* lines 233-251
PlayRule(cmd, env) ==
    IF IsPlay(cmd)
    THEN LET target == strip(replace(replace(cmd, "play music", ""), "play", ""))
         IN  IF target # "" /\ env.exists
             THEN [NoEffect EXCEPT
                      !.rule = "Play",
                      !.result = "Playing " \o target,
                      !.speaks = <<"Playing " \o target>>,
                      !.procs = IF startswith(env.platform, "win")
                                THEN << <<"startfile", target>> >>
                                ELSE IF startswith(env.platform, "darwin")
                                THEN << <<"open", target>> >>
                                ELSE << <<"xdg-open", target>> >>]
             ELSE [NoEffect EXCEPT
                      !.rule = "Play",
                      !.result = "Opened YouTube Music",
                      !.speaks = <<"Opening YouTube Music">>,
                      !.opens = <<"https://music.youtube.com">>]
    ELSE ShutdownRule(cmd, env)

\* lines 225-231
SearchRule(cmd, env) ==
    IF IsSearch(cmd)
    THEN LET q == strip(replace(replace(cmd, "search ", ""), "google ", ""))
         IN  [NoEffect EXCEPT
                 !.rule = "Search",
                 !.result = "Searched Google for: " \o q,
                 !.speaks = <<"Here are the Google results for " \o q>>,
                 !.opens = <<"https://www.google.com/search?q=" \o replace(q, " ", "+")>>]
    ELSE PlayRule(cmd, env)

\* line 209
OpenUrl(target) == IF startswith(target, "http") THEN target ELSE "https://" \o target

\* lines 205-223; a target that is neither a URL nor a known site leaves the
\* block without returning, and the next `if` of the function is tried
OpenRule(cmd, env) ==
    IF IsOpen(cmd)
    THEN LET target == strip(replace(cmd, "open ", ""))
         IN  IF contains(target, ".") \/ contains(target, "http")
             THEN [NoEffect EXCEPT
                      !.rule = "Open",
                      !.result = "Opened " \o OpenUrl(target),
                      !.speaks = <<"Opening " \o target>>,
                      !.opens = <<OpenUrl(target)>>]
             ELSE IF target \in DOMAIN mapping
             THEN [NoEffect EXCEPT
                      !.rule = "Open",
                      !.result = "Opened " \o target,
                      !.speaks = <<"Opening " \o target>>,
                      !.opens = <<mapping[target]>>]
             ELSE SearchRule(cmd, env)
    ELSE SearchRule(cmd, env)

\* lines 195-203
WikipediaRule(cmd, env) ==
    IF IsWikipedia(cmd)
    THEN LET q == strip(replace(replace(replace(cmd, "wikipedia", ""),
                                        "who is", ""), "what is", ""))
             s == search_wikipedia(q, env.wiki)
         IN  IF q = ""
             THEN [NoEffect EXCEPT !.rule = "Wikipedia", !.result = ASK_WIKI]
             ELSE [NoEffect EXCEPT
                      !.rule = "Wikipedia",
                      !.result = s,
                      !.lookups = <<q>>,
                      !.speaks = <<"Searching Wikipedia for " \o q, s>>]
    ELSE OpenRule(cmd, env)

\* lines 185-193
TimeDateRule(cmd, env) ==
    IF IsTime(cmd)
    THEN [NoEffect EXCEPT
             !.rule = "Time",
             !.result = "Time: " \o strftime_time(env.now),
             !.speaks = <<"The time is " \o strftime_time(env.now)>>]
    ELSE IF IsDate(cmd)
    THEN [NoEffect EXCEPT
             !.rule = "Date",
             !.result = "Date: " \o strftime_date(env.now),
             !.speaks = <<"Today is " \o strftime_date(env.now)>>]
    ELSE WikipediaRule(cmd, env)

\* the Time and Date checks placed above the Exit check
TimeBeforeExit(cmd, env) ==
    IF IsTime(cmd) \/ IsDate(cmd) THEN TimeDateRule(cmd, env)
    ELSE IF IsExit(cmd)
    THEN [NoEffect EXCEPT !.rule = "Exit", !.exit = TRUE, !.speaks = <<FAREWELL>>]
    ELSE TimeDateRule(cmd, env)

\* the Exit branch returning to main_loop in place of sys.exit(0)
ExitReturns(cmd, env) ==
    IF IsExit(cmd)
    THEN [NoEffect EXCEPT !.rule = "Exit", !.speaks = <<FAREWELL>>]
    ELSE TimeDateRule(cmd, env)

\* lines 179-183
ExitRule(cmd, env) ==
    IF IsExit(cmd)
    THEN [NoEffect EXCEPT !.rule = "Exit", !.exit = TRUE, !.speaks = <<FAREWELL>>]
    ELSE TimeDateRule(cmd, env)

\* lines 173-282
handle_command(cmd, env) ==
    IF cmd = ""
    THEN [NoEffect EXCEPT !.rule = "Empty", !.result = DIDNT_CATCH]
    ELSE ExitRule(lower(cmd), env)

-----------------------------------------------------------------------------
(* Inputs of a session *)

\* lines typed at 'Type your command: '
TypedInputs ==
    {"exit", "Quit", "goodbye", "shutdown assistant", "time to exit",
     "what time is it", "open update.com",
     "who is ada", "wikipedia",
     "open example.com", "open youtube", "open http://x.com", "open httpbin.org",
     "open foo", "open notes",
     "search cats", "play music", "play song.mp3",
     "please shutdown this computer", "shutdown",
     "note buy milk", "note",
     "hello", "  ",
     "jarvis", "jarjarvisvis", "hey jarvis note eggs", "jarvis hi jarvis"}

\* transcripts recognizer.recognize_google can return
HeardTexts == {"Jarvis open google", " ", ""}

\* the smaller choice of lines and transcripts of the longer sessions
SessionInputs == {"who is ada", "note buy milk", "remember the keys", "exit", ""}
SessionHeard == {"Jarvis open google", ""}

\* the ways listen() ends without a transcript (lines 134-152)
ListenFailures ==
    {"WaitTimeoutError", "CaptureError", "UnknownValueError", "RequestError",
     "RecognitionError"}

Platforms == {"win32", "linux", "darwin"}

-----------------------------------------------------------------------------
(* main_loop: from the acquired text to the text handed to handle_command *)

\* s.replace(old, new, 1): only the leftmost occurrence
replace_first(s, old, new) ==
    IF contains(s, old)
    THEN LET at(i) == SubSeq(s, i, i + Len(old) - 1) = old
             first == CHOOSE i \in 1..Len(s) : at(i) /\ \A j \in 1..(i - 1) : ~at(j)
         IN  SubSeq(s, 1, first - 1) \o new \o Tail_(s, first + Len(old) - 1)
    ELSE s

\* the wake word removed with text.replace('jarvis', '', 1)
strip_first_wake_word(t) ==
    IF contains(t, "jarvis") THEN strip(replace_first(t, "jarvis", "")) ELSE t

\* lines 315-318
strip_wake_word(t) ==
    IF contains(t, "jarvis") THEN strip(replace(t, "jarvis", "")) ELSE t

\* lines 311-318: what reaches handle_command for an acquired, truthy text
normalize(t) == strip_wake_word(lower(t))

\* f as an explicit table: TLC keeps [x \in S |-> e] unevaluated and computes e
\* anew at every application, and evaluates f @@ g once, to a table
Table(f) == f @@ <<>>

\* line 307: input('Type your command: ').strip()
typed == Table([raw \in TypedInputs \cup SessionInputs |-> strip(raw)])

\* lines 140-143: listen() returns the transcript lowercased
heard == Table([t \in HeardTexts \cup SessionHeard |-> lower(t)])

\* every text main_loop can hold at line 311
Acquired == ({typed[r] : r \in DOMAIN typed} \cup {heard[t] : t \in DOMAIN heard}) \ {""}

\* normalize, evaluated once for every acquired text
normalized == Table([t \in Acquired |-> normalize(t)])

\* every text main_loop can hand to handle_command at line 321
Commands == {normalized[t] : t \in Acquired}

\* what handle_command can find outside the program when it runs
Envs ==
    [now : 1..(MaxCycles + MaxDispatch + MaxLive),
     exists : BOOLEAN, wiki : WikiOutcomes, gemini : GeminiOutcomes,
     use_gemini : BOOLEAN, platform : Platforms]

\* handle_command, evaluated once for every command and environment
handled ==
    Table([cmd \in Commands |-> Table([env \in Envs |-> handle_command(cmd, env)])])

-----------------------------------------------------------------------------
(* Speech output: speak() and the threads it starts *)

WELCOME == "Hello sir, Jarvis at your service. Say a command or type it."
GOODBYE == "Goodbye, sir."

NewTasks(texts) == [i \in 1..Len(texts) |-> [text |-> texts[i], st |-> "ready"]]

\* speak() with the lock taken by the caller around the start of the thread
speak_holding_lock(texts) == engine_lock = 0 /\ tasks' = tasks \o NewTasks(texts)

\* lines 75-82, once per text: a daemon thread is created and started, and
\* the caller goes on without joining it
speak(texts) == tasks' = tasks \o NewTasks(texts)

InCriticalSection(i) == tasks[i].st = "speaking"

\* _s without `with engine_lock`
AcquireNoLock(i) ==
    /\ alive
    /\ tasks[i].st = "ready"
    /\ engine_lock' = i
    /\ tasks' = [tasks EXCEPT ![i].st = "speaking"]
    /\ UNCHANGED <<pc, text, result, rule, notes, opened, procs, lookups, prompts,
                   mic, USE_GEMINI, platform, cycles, alive>>

\* the lock granted in the order of the speak() calls, as a queue would
AcquireInOrder(i) ==
    /\ alive
    /\ tasks[i].st = "ready"
    /\ \A j \in 1..(i - 1) : tasks[j].st # "ready"
    /\ engine_lock = 0
    /\ engine_lock' = i
    /\ tasks' = [tasks EXCEPT ![i].st = "speaking"]
    /\ UNCHANGED <<pc, text, result, rule, notes, opened, procs, lookups, prompts,
                   mic, USE_GEMINI, platform, cycles, alive>>

\* line 78, entering `with engine_lock`
AcquireLock(i) ==
    /\ alive
    /\ tasks[i].st = "ready"
    /\ engine_lock = 0
    /\ engine_lock' = i
    /\ tasks' = [tasks EXCEPT ![i].st = "speaking"]
    /\ UNCHANGED <<pc, text, result, rule, notes, opened, procs, lookups, prompts,
                   mic, USE_GEMINI, platform, cycles, alive>>

\* lines 79-80 and leaving the with block: the text was played
Played(i) ==
    /\ alive
    /\ tasks[i].st = "speaking"
    /\ engine_lock' = 0
    /\ tasks' = [tasks EXCEPT ![i].st = "done"]
    /\ UNCHANGED <<pc, text, result, rule, notes, opened, procs, lookups, prompts,
                   mic, USE_GEMINI, platform, cycles, alive>>

\* the engine call raising between a bare acquire() and release()
EngineRaisesHoldingLock(i) ==
    /\ alive
    /\ tasks[i].st = "speaking"
    /\ tasks' = [tasks EXCEPT ![i].st = "failed"]
    /\ UNCHANGED <<pc, text, result, rule, engine_lock, notes, opened, procs, lookups,
                   prompts, mic, USE_GEMINI, platform, cycles, alive>>

\* lines 79-80 raise: the with block releases the lock and the thread dies
EngineRaises(i) ==
    /\ alive
    /\ tasks[i].st = "speaking"
    /\ engine_lock' = 0
    /\ tasks' = [tasks EXCEPT ![i].st = "failed"]
    /\ UNCHANGED <<pc, text, result, rule, notes, opened, procs, lookups, prompts,
                   mic, USE_GEMINI, platform, cycles, alive>>

-----------------------------------------------------------------------------
(* main_loop *)

\* lines 286-287
Start ==
    /\ alive
    /\ pc = "start"
    /\ speak(<<WELCOME>>)
    /\ pc' = "AwaitingInput"
    /\ UNCHANGED <<text, result, rule, engine_lock, notes, opened, procs, lookups,
                   prompts, mic, USE_GEMINI, platform, cycles, alive>>

\* lines 291-294: choice '3'; leaving the loop ends the script
Quit ==
    /\ alive
    /\ pc = "AwaitingInput"
    /\ speak(<<GOODBYE>>)
    /\ pc' = "Stopped"
    /\ UNCHANGED <<text, result, rule, engine_lock, notes, opened, procs, lookups,
                   prompts, mic, USE_GEMINI, platform, cycles, alive>>

\* lines 306-309: any choice but '1' and '3'; an empty line goes back to the prompt
TypeCommand(raw, limit) ==
    /\ alive
    /\ pc = "AwaitingInput"
    /\ cycles < limit
    /\ IF typed[raw] = ""
       THEN UNCHANGED <<pc, text, cycles>>
       ELSE /\ text' = typed[raw]
            /\ pc' = "Normalizing"
            /\ cycles' = cycles + 1
    /\ UNCHANGED <<result, rule, tasks, engine_lock, notes, opened, procs, lookups,
                   prompts, mic, USE_GEMINI, platform, alive>>

\* lines 124-152: None is modelled as ""; both are falsy for `if not text`
listen(has_mic, outcome) ==
    IF ~has_mic THEN ""
    ELSE IF outcome \in ListenFailures THEN ""
    ELSE heard[outcome]

\* lines 295-303: choice '1'; `selected` is whether the optional
\* select_microphone() sub-flow leaves a microphone in the global mic
Speak1(selected, outcome, limit) ==
    /\ alive
    /\ pc = "AwaitingInput"
    /\ cycles < limit
    /\ mic' = (mic \/ selected)
    /\ IF listen(mic', outcome) = ""
       THEN pc' = "NoSpeech" /\ UNCHANGED <<text, cycles>>
       ELSE /\ text' = listen(mic', outcome)
            /\ pc' = "Normalizing"
            /\ cycles' = cycles + 1
    /\ UNCHANGED <<result, rule, tasks, engine_lock, notes, opened, procs, lookups,
                   prompts, USE_GEMINI, platform, alive>>

\* `break` in place of the `continue` of line 305
BreakOnNoSpeech ==
    /\ alive
    /\ pc = "NoSpeech"
    /\ pc' = "Stopped"
    /\ UNCHANGED <<text, result, rule, tasks, engine_lock, notes, opened, procs,
                   lookups, prompts, mic, USE_GEMINI, platform, cycles, alive>>

\* lines 303-305: listen() returned nothing; the advisory is printed and
\* `continue` goes back to the top of the loop
Continue ==
    /\ alive
    /\ pc = "NoSpeech"
    /\ pc' = "AwaitingInput"
    /\ UNCHANGED <<text, result, rule, tasks, engine_lock, notes, opened, procs,
                   lookups, prompts, mic, USE_GEMINI, platform, cycles, alive>>

\* lines 311-320: lowercase the acquired text and remove the wake word
Normalize ==
    /\ alive
    /\ pc = "Normalizing"
    /\ text' = normalized[text]
    /\ pc' = "Dispatching"
    /\ UNCHANGED <<result, rule, tasks, engine_lock, notes, opened, procs, lookups,
                   prompts, mic, USE_GEMINI, platform, cycles, alive>>

\* the file opened with 'w' in place of 'a'
overwrite(file, lines) == IF lines = <<>> THEN file ELSE lines

\* lines 267-268: open(..., 'a') and one write
append(file, lines) == file \o lines

\* line 321: the whole call of handle_command, with the effects of its branch
Dispatch(exists, wiki, gemini) ==
    /\ alive
    /\ pc = "Dispatching"
    /\ LET env == [now |-> cycles, exists |-> exists, wiki |-> wiki, gemini |-> gemini,
                   use_gemini |-> USE_GEMINI, platform |-> platform]
           e == handled[text][env]
       IN  /\ speak(e.speaks)
           /\ rule' = e.rule
           /\ result' = e.result
           /\ notes' = append(notes, e.notes)
           /\ opened' = opened \o e.opens
           /\ procs' = procs \o e.procs
           /\ lookups' = lookups \o e.lookups
           /\ prompts' = prompts \o e.prompts
           /\ pc' = IF e.exit THEN "Stopped" ELSE "Displaying"
    /\ UNCHANGED <<text, engine_lock, mic, USE_GEMINI, platform, cycles, alive>>

\* line 322, then back to the top of the loop; text and result are dead there
Display ==
    /\ alive
    /\ pc = "Displaying"
    /\ pc' = "AwaitingInput"
    /\ text' = ""
    /\ result' = ""
    /\ rule' = "None"
    /\ UNCHANGED <<tasks, engine_lock, notes, opened, procs, lookups, prompts, mic,
                   USE_GEMINI, platform, cycles, alive>>

\* lines 327-331: KeyboardInterrupt while the loop waits at a prompt; the
\* sleep of line 330 is the time the threads have before ProcessExit
Interrupt ==
    /\ alive
    /\ pc = "AwaitingInput"
    /\ speak(<<GOODBYE>>)
    /\ pc' = "Stopped"
    /\ UNCHANGED <<text, result, rule, engine_lock, notes, opened, procs, lookups,
                   prompts, mic, USE_GEMINI, platform, cycles, alive>>

\* the interpreter exits once the main thread is done: daemon threads
\* (line 81) are not joined, whatever they were doing
killed(ts) ==
    [i \in 1..Len(ts) |->
        IF ts[i].st \in {"ready", "speaking"} THEN [ts[i] EXCEPT !.st = "killed"]
        ELSE ts[i]]

ProcessExit ==
    /\ alive
    /\ pc = "Stopped"
    /\ alive' = FALSE
    /\ tasks' = killed(tasks)
    /\ engine_lock' = 0
    /\ UNCHANGED <<pc, text, result, rule, notes, opened, procs, lookups, prompts,
                   mic, USE_GEMINI, platform, cycles>>

-----------------------------------------------------------------------------
(* Specifications *)

\* the module has been imported: lines 53-62 set USE_GEMINI, lines 86-92 set
\* mic, line 73 creates the lock, and no command has run yet
Init ==
    /\ pc = "start"
    /\ text = ""
    /\ result = ""
    /\ rule = "None"
    /\ tasks = <<>>
    /\ engine_lock = 0
    /\ notes = <<>>
    /\ opened = <<>>
    /\ procs = <<>>
    /\ lookups = <<>>
    /\ prompts = <<>>
    /\ mic \in BOOLEAN
    /\ USE_GEMINI \in BOOLEAN
    /\ platform \in Platforms
    /\ cycles = 0
    /\ alive = TRUE

Threads ==
    \/ \E i \in 1..Len(tasks) : AcquireLock(i)
    \/ \E i \in 1..Len(tasks) : Played(i)
    \/ \E i \in 1..Len(tasks) : EngineRaises(i)

\* sessions of up to MaxCycles commands out of SessionInputs and SessionHeard
Next ==
    \/ Start
    \/ Quit
    \/ \E raw \in SessionInputs : TypeCommand(raw, MaxCycles)
    \/ \E selected \in BOOLEAN, outcome \in ListenFailures \cup SessionHeard :
          Speak1(selected, outcome, MaxCycles)
    \/ \E exists \in BOOLEAN, wiki \in WikiOutcomes, gemini \in GeminiOutcomes :
          Dispatch(exists, wiki, gemini)
    \/ Continue
    \/ Normalize
    \/ Display
    \/ Interrupt
    \/ Threads
    \/ ProcessExit

\* no command of these sessions reaches a branch that reads sys.platform
InitSession == Init /\ platform = "linux"

Spec == InitSession /\ [][Next]_vars

\* sessions of up to MaxDispatch commands out of TypedInputs and HeardTexts
NextDispatch ==
    \/ Start
    \/ Quit
    \/ \E raw \in TypedInputs : TypeCommand(raw, MaxDispatch)
    \/ \E selected \in BOOLEAN, outcome \in ListenFailures \cup HeardTexts :
          Speak1(selected, outcome, MaxDispatch)
    \/ \E exists \in BOOLEAN, wiki \in WikiOutcomes, gemini \in GeminiOutcomes :
          Dispatch(exists, wiki, gemini)
    \/ Continue
    \/ Normalize
    \/ Display
    \/ Interrupt
    \/ Threads
    \/ ProcessExit

SpecDispatch == Init /\ [][NextDispatch]_vars

\* the lines typed in the sessions of SpecLive
LiveInputs == {"who is ada", "exit"}

\* sessions of up to MaxLive commands out of LiveInputs
NextLive ==
    \/ Start
    \/ Quit
    \/ \E raw \in LiveInputs : TypeCommand(raw, MaxLive)
    \/ \E selected \in BOOLEAN, outcome \in ListenFailures :
          Speak1(selected, outcome, MaxLive)
    \/ \E exists \in BOOLEAN, wiki \in WikiOutcomes, gemini \in GeminiOutcomes :
          Dispatch(exists, wiki, gemini)
    \/ Continue
    \/ Normalize
    \/ Display
    \/ Interrupt
    \/ Threads
    \/ ProcessExit

\* the most speak() calls of a session of SpecLive: the welcome, two for each
\* command, the goodbye
MaxTasks == 2 * MaxLive + 2

\* the threads are scheduled fairly: a thread that can take the lock does not
\* wait forever, and each engine call returns or raises
Fairness ==
    \A i \in 1..MaxTasks :
        /\ WF_vars(i \in DOMAIN tasks /\ AcquireLock(i))
        /\ WF_vars(i \in DOMAIN tasks /\ (Played(i) \/ EngineRaises(i)))

SpecLive == InitSession /\ [][NextLive]_vars /\ Fairness

-----------------------------------------------------------------------------
(* Properties *)

Speaking == {i \in 1..Len(tasks) : InCriticalSection(i)}
Ready == {i \in 1..Len(tasks) : tasks[i].st = "ready"}

\* C1: at most one speech task is inside the synthesis critical section,
\* however many speak() calls have tasks running, and it is the task that
\* holds engine_lock
MutualExclusion ==
    /\ Cardinality(Speaking) <= 1
    /\ \A i \in Speaking : engine_lock = i

\* three tasks run concurrently: one speaks while two more wait for the lock
MutualExclusionWitness ==
    /\ Cardinality(Speaking) = 1
    /\ Cardinality(Ready) >= 2

\* C2: speak() never blocks its caller: whenever the foreground thread is at
\* a step that calls speak() (the welcome, the goodbye of choice '3', a call of
\* handle_command), that step can be taken, whoever holds engine_lock and
\* however many tasks wait for it
SpeakNeverBlocks ==
    alive =>
        /\ pc = "start" => ENABLED Start
        /\ pc = "AwaitingInput" => ENABLED Quit
        /\ pc = "Dispatching" =>
              ENABLED (\E exists \in BOOLEAN, wiki \in WikiOutcomes,
                          gemini \in GeminiOutcomes : Dispatch(exists, wiki, gemini))

\* handle_command is about to run, and to call speak(), while one task holds
\* the lock and another waits for it
SpeakNeverBlocksWitness ==
    /\ pc = "Dispatching"
    /\ text = "who is ada"
    /\ engine_lock # 0
    /\ Ready # {}

\* a step in which the foreground thread runs handle_command on `text`
Dispatched == pc = "Dispatching" /\ pc' # "Dispatching"

\* what handle_command can change besides the speech tasks and its result
Outside == <<notes, opened, procs, lookups, prompts>>

HasExitKeyword(t) ==
    \E kw \in {"exit", "quit", "goodbye", "shutdown assistant"} : contains(lower(t), kw)

\* the texts that reach a dispatch, classified once
WithExitKeyword == {t \in Commands : HasExitKeyword(t)}
WithShutdown == {t \in Commands : contains(lower(t), "shutdown")}
WithComputer == {t \in Commands : contains(lower(t), "computer")}
WithShutdownAssistant == {t \in Commands : contains(lower(t), "shutdown assistant")}

\* C3: a dispatch of a text that contains an Exit keyword takes the Exit
\* branch and ends the session, with no result and no effect of any other
\* rule, whatever else the text contains
ExitPriority ==
    [][(Dispatched /\ text \in WithExitKeyword) =>
          /\ rule' = "Exit"
          /\ pc' = "Stopped"
          /\ result' = ""
          /\ tasks' = tasks \o NewTasks(<<FAREWELL>>)
          /\ UNCHANGED Outside]_vars

\* a text with both "exit" and "time" was dispatched and ended the session
ExitPriorityWitness ==
    /\ pc = "Stopped"
    /\ rule = "Exit"
    /\ contains(text, "exit")
    /\ contains(text, "time")

IsOsShutdown(p) == p[1] = "shutdown" \/ (p[1] = "sudo" /\ p[2] = "shutdown")

\* C4: an OS shutdown command is only ever started by a dispatch of a text
\* with both "shutdown" and "computer"; "shutdown assistant" takes the Exit
\* branch and starts no process; "please shutdown this computer" takes the
\* System-Shutdown branch
ShutdownDisambiguation ==
    [][/\ (\E i \in (Len(procs) + 1)..Len(procs') : IsOsShutdown(procs'[i])) =>
             /\ Dispatched
             /\ text \in WithShutdown
             /\ text \in WithComputer
       /\ (Dispatched /\ text \in WithShutdownAssistant) =>
             /\ rule' = "Exit"
             /\ procs' = procs
       /\ (Dispatched /\ text = "please shutdown this computer") =>
             /\ rule' = "Shutdown"
             /\ result' = "Shutdown initiated."]_vars

\* "please shutdown this computer" was dispatched and the OS command started
ShutdownDisambiguationWitness ==
    /\ text = "please shutdown this computer"
    /\ rule = "Shutdown"
    /\ Len(procs) = 1
    /\ IsOsShutdown(procs[1])

\* C5: when the lowercased text contains "jarvis", the text handed to the
\* dispatcher contains no "jarvis" and has no leading or trailing whitespace
WakeWordStripped ==
    [][(pc = "Normalizing" /\ pc' = "Dispatching" /\ contains(lower(text), "jarvis")) =>
          /\ ~contains(text', "jarvis")
          /\ strip(text') = text']_vars

\* C6: a dispatch of a text that is empty once trimmed returns the
\* empty-utterance response, schedules no speech and changes nothing outside
EmptyUtterance ==
    [][(Dispatched /\ strip(text) = "") =>
          /\ result' = DIDNT_CATCH
          /\ tasks' = tasks
          /\ UNCHANGED Outside]_vars

\* the Note branch wrote: it returned "Noted: <text>"
NoteWritten == Dispatched /\ rule' = "Note" /\ startswith(result', "Noted: ")

\* C7: a Note dispatch with a non-empty residual text appends the one line
\* "[<timestamp>] <text>" and keeps every earlier line; every other step
\* leaves the store as it is
NoteStoreAppendOnly ==
    [][IF NoteWritten
       THEN /\ Len(notes') = Len(notes) + 1
            /\ SubSeq(notes', 1, Len(notes)) = notes
            /\ notes'[Len(notes')] =
                  "[" \o isoformat(cycles) \o "] " \o Tail_(result', Len("Noted: "))
       ELSE notes' = notes]_vars

\* two notes were written and the store holds both, the first one first
NoteStoreAppendOnlyWitness ==
    /\ Len(notes) = 2
    /\ notes[1] = "[2026-11-06T10:00:01] buy milk"
    /\ notes[2] = "[2026-11-06T10:00:02] the keys"

KnownSites == {"youtube", "google", "github", "gmail"}

\* C8: when the Open-target branch handles "open <target>", a target with a
\* scheme is opened as it is, a target with a dot and no scheme is opened as
\* "https://" + target, and a known site name is opened at its mapped URL
OpenTargetUrl ==
    [][(Dispatched /\ rule' = "Open" /\ startswith(text, "open ")) =>
          LET target == strip(Tail_(text, Len("open ")))
          IN  /\ contains(target, "://") => opened' = opened \o <<target>>
              /\ (contains(target, ".") /\ ~contains(target, "://")) =>
                    opened' = opened \o <<"https://" \o target>>
              /\ target \in KnownSites => opened' = opened \o <<mapping[target]>>]_vars

MatchesRule1To9(t) ==
    \/ IsExit(t) \/ IsTime(t) \/ IsDate(t) \/ IsWikipedia(t) \/ IsOpen(t)
    \/ IsSearch(t) \/ IsPlay(t) \/ IsShutdown(t) \/ IsNote(t)

\* the texts that reach a dispatch and match none of rules 1-9
Unmatched == {t \in Commands : ~MatchesRule1To9(lower(t))}

GenericHelp ==
    /\ rule' = "Fallback"
    /\ result' = NOT_UNDERSTOOD
    /\ tasks' = tasks \o NewTasks(<<HELP>>)
    /\ pc' = "Displaying"
    /\ UNCHANGED Outside

\* C9 as stated: every dispatch of a text that matches none of rules 1-9,
\* with no conversational client, returns the generic-help response and does
\* nothing but speak it
FallbackOrderingAsStated ==
    [][(Dispatched /\ ~USE_GEMINI /\ text \in Unmatched) => GenericHelp]_vars

\* C9, amended: the same for every non-empty text
FallbackOrdering ==
    [][(Dispatched /\ ~USE_GEMINI /\ text # "" /\ text \in Unmatched) =>
          GenericHelp]_vars

\* "hello" was dispatched with no client configured and got the help response
FallbackOrderingWitness ==
    /\ pc = "Displaying"
    /\ ~USE_GEMINI
    /\ text = "hello"
    /\ result = NOT_UNDERSTOOD
    /\ tasks[Len(tasks)].text = HELP

\* C10: once the process has ended through an Exit utterance, the farewell
\* has been played
FarewellBeforeStop ==
    (rule = "Exit" /\ ~alive) =>
        \E i \in 1..Len(tasks) : tasks[i].text = FAREWELL /\ tasks[i].st = "done"

\* a capture that yields nothing: no device, or listen() ends in one of its
\* `return None` branches, or the transcript is empty
YieldsNothing(has_mic, outcome) == listen(has_mic, outcome) = ""

\* C11: every voice capture that yields nothing (no microphone, timeout,
\* capture error, unintelligible audio, service unavailable) takes the loop
\* to the advisory and from there back to AwaitingInput: the dispatcher is not
\* called, the session does not stop, and nothing but the running speech
\* tasks changes
NoDispatchOnFailedCapture ==
    [][/\ \A selected \in BOOLEAN, outcome \in ListenFailures \cup SessionHeard :
             (Speak1(selected, outcome, MaxCycles) /\ YieldsNothing(mic', outcome)) =>
                 /\ pc' = "NoSpeech"
                 /\ UNCHANGED <<text, result, rule, tasks, cycles, alive, Outside>>
       /\ pc = "NoSpeech" =>
             /\ pc' \in {"NoSpeech", "AwaitingInput"}
             /\ Len(tasks') = Len(tasks)
             /\ UNCHANGED <<text, result, rule, cycles, alive, Outside>>]_vars

\* after a note was written, a capture without a microphone yielded nothing
NoDispatchOnFailedCaptureWitness ==
    /\ pc = "NoSpeech"
    /\ ~mic
    /\ Len(notes) = 1
    /\ cycles = 1

\* the lookup provider was called in this step and raised
LookupFailed ==
    /\ lookups' # lookups
    /\ \E exists \in BOOLEAN, gemini \in GeminiOutcomes : Dispatch(exists, "PageError", gemini)

\* the model client was called in this step and raised
ClientFailed ==
    /\ prompts' # prompts
    /\ \E exists \in BOOLEAN, wiki \in WikiOutcomes : Dispatch(exists, wiki, "raise")

\* the call of handle_command returned, and the loop goes on to the prompt
Contained ==
    /\ pc' = "Displaying"
    /\ alive'

\* C12 as stated: a dispatch in which the lookup provider or the model client
\* fails returns a message that carries the failure reason, and the loop
\* continues to AwaitingInput
ApiFailuresAsStated ==
    [][/\ LookupFailed => (Contained /\ contains(result', "PageError"))
       /\ ClientFailed => (Contained /\ contains(result', "raise"))
       /\ pc = "Displaying" => pc' \in {"Displaying", "AwaitingInput"}]_vars

\* C12, amended: a failure of the lookup provider is returned as a message
\* that carries the failure reason; a failure of the model client is returned
\* as the generic-help response; in both cases the loop continues to
\* AwaitingInput
ApiFailuresContained ==
    [][/\ LookupFailed =>
             (Contained /\ result' = "Wikipedia search failed: PageError")
       /\ ClientFailed =>
             (Contained /\ result' = NOT_UNDERSTOOD
                        /\ tasks' = tasks \o NewTasks(<<"Thinking...", HELP>>))
       /\ pc = "Displaying" => pc' \in {"Displaying", "AwaitingInput"}]_vars

\* the lookup of "ada" failed and main_loop is about to print the message
ApiFailuresContainedWitness ==
    /\ pc = "Displaying"
    /\ lookups = <<"ada">>
    /\ result = "Wikipedia search failed: PageError"

\* what is left of a text once the lookup triggers are removed
LookupQuery(t) ==
    strip(replace(replace(replace(lower(t), "wikipedia", ""), "who is", ""), "what is", ""))

\* what is left of a text once "note" and "remember" are removed
NoteText(t) == strip(replace(replace(lower(t), "note", ""), "remember", ""))

\* the texts that reach a dispatch and leave no query, or no note
EmptyQuery == {t \in Commands : LookupQuery(t) = ""}
EmptyNote == {t \in Commands : NoteText(t) = ""}

\* C13: a Knowledge-lookup dispatch with an empty query returns the
\* clarification prompt and does not call the lookup provider; a Note dispatch
\* with an empty note text returns the clarification prompt and does not write
\* to the note store; neither has any other outside effect
EmptyArgumentShortCircuit ==
    [][/\ (Dispatched /\ rule' = "Wikipedia" /\ text \in EmptyQuery) =>
             /\ result' = ASK_WIKI
             /\ lookups' = lookups
             /\ UNCHANGED Outside
       /\ (Dispatched /\ rule' = "Note" /\ text \in EmptyNote) =>
             /\ result' = ASK_NOTE
             /\ notes' = notes
             /\ UNCHANGED Outside]_vars

\* "note" alone was dispatched: the prompt came back and nothing was written
EmptyArgumentShortCircuitWitness ==
    /\ pc = "Displaying"
    /\ text = "note"
    /\ rule = "Note"
    /\ result = ASK_NOTE
    /\ notes = <<>>

\* the first rule of the canonical order whose predicate a lowercased text
\* satisfies; the two fallbacks, which every text satisfies, count as one
FirstMatch(t) ==
    IF IsExit(t) THEN "Exit"
    ELSE IF IsTime(t) THEN "Time"
    ELSE IF IsDate(t) THEN "Date"
    ELSE IF IsWikipedia(t) THEN "Wikipedia"
    ELSE IF IsOpen(t) THEN "Open"
    ELSE IF IsSearch(t) THEN "Search"
    ELSE IF IsPlay(t) THEN "Play"
    ELSE IF IsShutdown(t) THEN "Shutdown"
    ELSE IF IsNote(t) THEN "Note"
    ELSE "Fallbacks"

\* FirstMatch of every text that reaches a dispatch
FirstRule == Table([t \in Commands |-> FirstMatch(lower(t))])

\* the handler that ran in this step is the one of rule r
HandlerOf(r) ==
    IF r = "Fallbacks" THEN rule' \in {"Gemini", "Fallback"} ELSE rule' = r

\* the outside effects the handler of rule r can have
EffectsOf(r) ==
    /\ r \notin {"Note"} => notes' = notes
    /\ r \notin {"Open", "Search", "Play"} => opened' = opened
    /\ r \notin {"Play", "Shutdown"} => procs' = procs
    /\ r \notin {"Wikipedia"} => lookups' = lookups
    /\ r \notin {"Fallbacks"} => prompts' = prompts

\* C14: for every non-empty text, the handler that runs in a dispatch, and
\* with it the result and the outside effects, is that of the first rule of
\* the canonical order whose predicate the text satisfies
FirstMatchWins ==
    [][(Dispatched /\ text # "") =>
          (HandlerOf(FirstRule[text]) /\ EffectsOf(FirstRule[text]))]_vars

\* "open <target>" with a target that has no dot, no scheme and is no known site
UnrecognizedOpen ==
    {t \in Commands :
        /\ startswith(t, "open ")
        /\ LET target == strip(Tail_(t, Len("open ")))
           IN  /\ ~contains(target, ".")
               /\ ~contains(target, "http")
               /\ target \notin KnownSites}

\* C16: a dispatch of "open <target>" with an unrecognized target opens no
\* URL, writes no note and starts no OS process
UnrecognizedOpenTarget ==
    [][(Dispatched /\ text \in UnrecognizedOpen) =>
          /\ opened' = opened
          /\ notes' = notes
          /\ procs' = procs]_vars

\* C15: playback is not ordered: while the process runs and the lock is
\* free, every waiting task can be the next to take it, also one whose speak()
\* call came after that of a task still waiting
PlaybackNotOrdered ==
    (alive /\ engine_lock = 0) => \A i \in Ready : ENABLED AcquireLock(i)

\* the Knowledge-lookup handler called speak() for its announcement and then
\* for its summary, and the summary has been played while the announcement
\* still waits
PlaybackNotOrderedWitness ==
    \E i, j \in 1..Len(tasks) :
        /\ i < j
        /\ tasks[i].text = "Searching Wikipedia for ada"
        /\ tasks[i].st = "ready"
        /\ tasks[j].text = "Summary of ada"
        /\ tasks[j].st = "done"

\* C17: every dispatch that returns a text also schedules a speech task,
\* the clarification prompts included
EveryResponseSpoken ==
    [][(Dispatched /\ result' # "") => Len(tasks') > Len(tasks)]_vars

\* the session is over for the foreground thread: it acquires and dispatches
\* nothing more
NoFurtherUtterance ==
    /\ pc' = "Stopped"
    /\ UNCHANGED <<text, result, rule, cycles, Outside>>

\* C18 as stated: a dispatch that runs the Exit handler or the System-Shutdown
\* handler ends the session from within the handler, and from then on the
\* loop never returns to AwaitingInput and nothing more is acquired or
\* dispatched
TerminatingHandlersAsStated ==
    [][/\ (Dispatched /\ rule' \in {"Exit", "Shutdown"}) => pc' = "Stopped"
       /\ rule \in {"Exit", "Shutdown"} => NoFurtherUtterance]_vars

\* C18, amended: that holds of the Exit handler; the System-Shutdown handler
\* starts the OS command and returns "Shutdown initiated.", and the loop
\* goes on to display it and back to AwaitingInput
TerminatingHandlers ==
    [][/\ (Dispatched /\ rule' = "Exit") => pc' = "Stopped"
       /\ rule = "Exit" => NoFurtherUtterance
       /\ (Dispatched /\ rule' = "Shutdown") =>
             /\ pc' = "Displaying"
             /\ result' = "Shutdown initiated."
       /\ (pc = "Displaying" /\ rule = "Shutdown") =>
             pc' \in {"Displaying", "AwaitingInput"}]_vars

\* the loop is back at its prompt after the System-Shutdown handler ran
TerminatingHandlersWitness ==
    /\ pc = "AwaitingInput"
    /\ alive
    /\ Len(procs) = 1
    /\ IsOsShutdown(procs[1])

\* a step in which main_loop turns the acquired text into the dispatched one
Normalized == pc = "Normalizing" /\ pc' = "Dispatching"

\* every acquired text, lowercased and with only the first "jarvis" removed
FirstOnly == Table([t \in Acquired |-> strip_first_wake_word(lower(t))])

\* the leftmost "jarvis" in s at or after position from, 0 when there is none
NextToken(s, from) ==
    LET at == {i \in from..(Len(s) - 5) : SubSeq(s, i, i + 5) = "jarvis"}
    IN  IF at = {} THEN 0 ELSE CHOOSE i \in at : \A j \in at : i <= j

\* s from position from on, without the occurrences of "jarvis" that one
\* scan from the left finds
RECURSIVE WithoutToken(_, _)
WithoutToken(s, from) ==
    LET i == NextToken(s, from)
    IN  IF i = 0 THEN SubSeq(s, from, Len(s))
        ELSE SubSeq(s, from, i - 1) \o WithoutToken(s, i + 6)

\* every acquired text, lowercased and with every such occurrence removed
AllRemoved ==
    Table([t \in Acquired |->
              IF contains(lower(t), "jarvis") THEN strip(WithoutToken(lower(t), 1))
              ELSE lower(t)])

\* C19 as stated: the text handed to the dispatcher is the lowercased text
\* with the first "jarvis" deleted, then trimmed, a later "jarvis" staying in
\* place; without "jarvis" it is the lowercased text itself
WakeWordFirstOnly ==
    [][Normalized => text' = FirstOnly[text]]_vars

\* C19, amended: every "jarvis" that one scan from the left finds is deleted
WakeWordEveryOccurrence ==
    [][Normalized => text' = AllRemoved[text]]_vars

\* "jarvis hi jarvis" was typed and "hi" is about to be dispatched
WakeWordEveryOccurrenceWitness ==
    /\ pc = "Dispatching"
    /\ text = "hi"

\* task i was started by speak() and waits for the lock
Waiting(i) == i \in DOMAIN tasks /\ tasks[i].st = "ready"

\* task i is through with the engine and does not hold the lock
Released(i) ==
    /\ i \in DOMAIN tasks
    /\ tasks[i].st \in {"done", "failed"}
    /\ engine_lock # i

\* a task takes the lock once and leaves it once, by playing or by raising
OncePerTask ==
    \A i \in DOMAIN tasks :
        tasks'[i].st # tasks[i].st =>
            \/ tasks[i].st = "ready" /\ tasks'[i].st = "speaking" /\ engine_lock' = i
            \/ /\ tasks[i].st = "speaking"
               /\ tasks'[i].st \in {"done", "failed"}
               /\ engine_lock = i
               /\ engine_lock' = 0
            \/ ~alive' /\ tasks'[i].st = "killed"

\* C20: under fair scheduling of the threads, and while the process runs,
\* every task started by speak() gets the lock, plays its text once or sees
\* the engine raise, and gives the lock back
SpeechTasksComplete ==
    /\ [][OncePerTask]_vars
    /\ \A i \in 1..MaxTasks : Waiting(i) ~> (Released(i) \/ ~alive)

\* four tasks were started, the engine raised in one of them, and all four
\* are through while the process still runs
SpeechTasksCompleteWitness ==
    /\ alive
    /\ Len(tasks) = 4
    /\ \A i \in 1..4 : Released(i)
    /\ \E i \in 1..4 : tasks[i].st = "failed"
    /\ \E i \in 1..4 : tasks[i].st = "done"

====
